---- MODULE Spec2Model ----
(***************************************************************************)
(* Court-availability crawler: the write path (crawl, validate/flatten,    *)
(* replace the persisted dataset) of sportscanner/crawlers/pipeline.py and *)
(* the read path (search) of                                               *)
(* sportscanner/api/routers/search/badminton/endpoints.py.                 *)
(*                                                                         *)
(* Python values are modelled as follows.                                  *)
(*   date            [year, month, day]                                    *)
(*   a crawled slot  [type, composite_key, date, starting_time,            *)
(*                    ending_time, spaces]; type is the Python class of    *)
(*                    the object ("UnifiedParserSchema" or another)        *)
(*   a response      [none, items]: None, or a list of slots               *)
(*   a list          a sequence                                            *)
(***************************************************************************)
EXTENDS Integers, Sequences, FiniteSets, TLC

VARIABLES
    today,          \* date.today() / datetime.now().date()
    dataset,        \* the persisted table db.SportScanner, rows in insertion order
    rpc,            \* position of full_data_refresh_pipeline
    sizes,          \* number of fetch operations each adapter's pipeline() created
    ops,            \* the orchestrator's worklist: one state per submitted operation
    done_order,     \* history: worklist indices in the order the operations completed
    responses,      \* responses_from_all_sources
    all_slots,      \* all_slots of full_data_refresh_pipeline
    rerror,         \* the exception full_data_refresh_pipeline ended with, or "none"
    pre_dataset,    \* history: the dataset when the running refresh started
    replace_phase,  \* history: how far the replace of the running refresh got
    fl_pc,          \* position of a direct call of flatten_responses
    fl_in,          \* argument of a direct call of flatten_responses
    fl_out,         \* its outcome: [raised, value]
    spc,            \* position of the search request handler
    filters,        \* the request: payload, Authorization and what the lookups answer
    composite_keys, \* composite_keys of search
    slots,          \* slots of search: the rows read from the dataset
    distances,      \* distance_from_venues_reference
    sorted_response,\* sorted_response of search
    sstatus,        \* how the search ended: "ok" or the exception raised
    in_window,      \* history: the query ran between the delete and the insert phase
    sa_pc,          \* position of standalone_refresh_trigger
    sa_ops,         \* the worklist the standalone refresh hands to the orchestrator
    all_fetched_slots, \* all_fetched_slots of standalone_refresh_trigger
    sa_out          \* its outcome: [raised, error, value]

vars == <<today, dataset, rpc, sizes, ops, done_order, responses, all_slots,
          rerror, pre_dataset, replace_phase, fl_pc, fl_in, fl_out, spc, filters,
          composite_keys, slots, distances, sorted_response, sstatus, in_window,
          sa_pc, sa_ops, all_fetched_slots, sa_out>>

refreshVars == <<rpc, sizes, ops, done_order, responses, all_slots, rerror,
                 pre_dataset, replace_phase>>
flattenVars == <<fl_pc, fl_in, fl_out>>
searchVars == <<spc, filters, composite_keys, slots, distances, sorted_response,
                sstatus, in_window>>
standaloneVars == <<sa_pc, sa_ops, all_fetched_slots, sa_out>>

----------------------------------------------------------------------------
(* Bounds of the model *)

\* the largest number of fetch operations one refresh submits
MaxOps == 2
\* the largest number of entries in an argument of flatten_responses
MaxEntries == 4
\* the largest number of rows of a dataset a search is run against on its own
MaxRows == 3

----------------------------------------------------------------------------
(* Calendar: datetime.date *)

Date(y, m, d) == [year |-> y, month |-> m, day |-> d]

IsLeap(y) == (y % 4 = 0 /\ y % 100 # 0) \/ y % 400 = 0

DaysInMonth(y, m) ==
    IF m = 2 THEN (IF IsLeap(y) THEN 29 ELSE 28)
    ELSE IF m \in {4, 6, 9, 11} THEN 30 ELSE 31

NextDay(d) ==
    IF d.day < DaysInMonth(d.year, d.month) THEN Date(d.year, d.month, d.day + 1)
    ELSE IF d.month < 12 THEN Date(d.year, d.month + 1, 1)
    ELSE Date(d.year + 1, 1, 1)

\* d + timedelta(days=n), n >= 0
RECURSIVE AddDays(_, _)
AddDays(d, n) == IF n = 0 THEN d ELSE AddDays(NextDay(d), n - 1)

\* date comparison a < b, a <= b
DateLT(a, b) ==
    \/ a.year < b.year
    \/ a.year = b.year /\ a.month < b.month
    \/ a.year = b.year /\ a.month = b.month /\ a.day < b.day

DateLE(a, b) == a = b \/ DateLT(a, b)

----------------------------------------------------------------------------
(* Slots and responses *)

Slot(k, d, s, e, n) ==
    [type |-> "UnifiedParserSchema", composite_key |-> k, date |-> d,
     starting_time |-> s, ending_time |-> e, spaces |-> n]

\* an object of another class in a response (a raw dict an adapter forgot to parse)
RawDict(k, d, s, e, n) ==
    [type |-> "dict", composite_key |-> k, date |-> d,
     starting_time |-> s, ending_time |-> e, spaces |-> n]

NoneResponse == [none |-> TRUE, items |-> <<>>]
ListResponse(items) == [none |-> FALSE, items |-> items]

\* Python truthiness of a response: None and [] are falsy
Truthy(response) == ~response.none /\ response.items # <<>>

IsUnified(slot) == slot.type = "UnifiedParserSchema"

----------------------------------------------------------------------------
(* flatten_responses *)

\* [slot for response in responses if response for slot in response]
RECURSIVE Comprehension(_)
Comprehension(rs) ==
    IF rs = <<>> THEN <<>>
    ELSE (IF Truthy(Head(rs)) THEN Head(rs).items ELSE <<>>) \o Comprehension(Tail(rs))

\* the same comprehension with a set() around it: duplicates dropped
RECURSIVE Dedup(_)
Dedup(s) ==
    IF s = <<>> THEN <<>>
    ELSE LET rest == Dedup(Tail(s))
         IN IF \E i \in 1..Len(rest) : rest[i] = Head(s) THEN rest
            ELSE <<Head(s)>> \o rest

\* a flatten that swallows the objects failing the isinstance check
FlattenDropsInvalid(rs) ==
    [raised |-> FALSE, value |-> SelectSeq(Comprehension(rs), IsUnified)]

\* a flatten that removes duplicate slots
FlattenDedups(rs) ==
    LET v == Comprehension(rs)
    IN IF \A i \in 1..Len(v) : IsUnified(v[i])
       THEN [raised |-> FALSE, value |-> Dedup(v)]
       ELSE [raised |-> TRUE, value |-> <<>>]

\* outcome of flatten_responses(rs): the list returned, or TypeError raised
flatten_responses(rs) ==
    LET _validation_check == Comprehension(rs)
    IN IF \A i \in 1..Len(_validation_check) : IsUnified(_validation_check[i])
       THEN [raised |-> FALSE, value |-> _validation_check]
       ELSE [raised |-> TRUE, value |-> <<>>]

----------------------------------------------------------------------------
(* The crawl: adapters, fetch operations, orchestrator *)

\* the adapters whose operations are submitted, in argument order
Adapters == <<"TowerHamlets", "BetterOrganisation", "CitySports">>

\* dates = [today + timedelta(days=i) for i in range(15)]
Horizon == 15
RefreshDates(t) == [i \in 1..Horizon |-> AddDays(t, i - 1)]

\* What a fetch operation of each adapter can return when it completes on a
\* refresh started on day t: the adapters are black boxes, so every shape is
\* drawn from some adapter (None, [], one slot, several slots, an unparsed
\* object); every slot is dated within the refresh dates.
AdapterResults(a, t) ==
    LET d == RefreshDates(t)
    IN CASE a = "TowerHamlets" ->
              {NoneResponse, ListResponse(<<Slot("A", d[1], 9, 10, 1)>>)}
         [] a = "BetterOrganisation" ->
              {ListResponse(<<>>),
               ListResponse(<<Slot("B", d[2], 9, 10, 1), Slot("A", d[2], 9, 10, 1)>>)}
         [] a = "CitySports" ->
              {ListResponse(<<Slot("B", d[1], 9, 10, 0)>>),
               ListResponse(<<RawDict("B", d[1], 9, 10, 1)>>)}

\* lines 47-52: the adapters whose pipeline() is called, the three submitted
\* ones first; the group of the last one is not handed to the orchestrator
\* (line 59)
Pipelines == Adapters \o <<"Playground">>

\* the group sizes the adapters' pipeline() calls can yield
GroupSizes ==
    {sz \in [1..Len(Pipelines) -> 0..MaxOps] : sz[1] + sz[2] + sz[3] + sz[4] <= MaxOps}

\* the adapter of the i-th operation of the worklist: the groups are chained in
\* argument order
AdapterOf(sz, i) ==
    IF i <= sz[1] THEN Adapters[1]
    ELSE IF i <= sz[1] + sz[2] THEN Adapters[2] ELSE Adapters[3]

Pending == [st |-> "pending", res |-> NoneResponse]
Succeeded(r) == [st |-> "ok", res |-> r]
Failed == [st |-> "failed", res |-> NoneResponse]
Cancelled == [st |-> "cancelled", res |-> NoneResponse]

\* an orchestrator returning the results in completion order
BotCompletionOrder(worklist, order) ==
    IF \E i \in 1..Len(worklist) : worklist[i].st = "failed"
    THEN [raised |-> TRUE, value |-> <<>>]
    ELSE [raised |-> FALSE,
          value |-> [k \in 1..Len(order) |-> worklist[order[k]].res]]

\* an orchestrator with a partial-success policy: failed operations are left out
BotPartialSuccess(worklist, order) ==
    LET ok == SelectSeq(worklist, LAMBDA o : o.st = "ok")
    IN [raised |-> FALSE, value |-> [i \in 1..Len(ok) |-> ok[i].res]]

\* Outcome of awaiting SportscannerCrawlerBot(groups...) once the awaited
\* operations have resolved: fail-fast, and on success one result per
\* operation in submission order. `order` is the completion order.
SportscannerCrawlerBot(worklist, order) ==
    IF \E i \in 1..Len(worklist) : worklist[i].st = "failed"
    THEN [raised |-> TRUE, value |-> <<>>]
    ELSE [raised |-> FALSE, value |-> [i \in 1..Len(worklist) |-> worklist[i].res]]

----------------------------------------------------------------------------
(* The dataset publisher: delete_all_items_and_insert_fresh_to_db *)

\* a delete phase that removes only the rows of days gone by
DeleteOnlyPast(table) == SelectSeq(table, LAMBDA r : DateLE(today, r.date))

\* phase 1: delete every row
DeleteAll(table) == <<>>

\* phase 2: insert the batch
InsertAll(table, batch) == table \o batch

----------------------------------------------------------------------------
(* full_data_refresh_pipeline *)

\* lines 39-54: the adapters create their operations and the orchestrator is
\* started with the three groups
StartRefresh ==
    /\ rpc = "idle"
    /\ \E sz \in GroupSizes :
         /\ sizes' = sz
         /\ ops' = [i \in 1..(sz[1] + sz[2] + sz[3]) |-> Pending]
    /\ rpc' = "crawling"
    /\ done_order' = <<>>
    /\ responses' = <<>>
    /\ all_slots' = <<>>
    /\ rerror' = "none"
    /\ pre_dataset' = dataset
    /\ replace_phase' = "none"
    /\ UNCHANGED <<standaloneVars, today, dataset, flattenVars, searchVars>>

\* a fetch operation completes with a result
OpSucceed(i) ==
    /\ rpc = "crawling"
    /\ i \in 1..Len(ops)
    /\ ops[i].st = "pending"
    /\ \E r \in AdapterResults(AdapterOf(sizes, i), today) :
         ops' = [ops EXCEPT ![i] = Succeeded(r)]
    /\ done_order' = Append(done_order, i)
    /\ UNCHANGED <<standaloneVars, today, dataset, rpc, sizes, responses, all_slots, rerror,
                   pre_dataset, replace_phase, flattenVars, searchVars>>

\* a fetch operation raises
OpFail(i) ==
    /\ rpc = "crawling"
    /\ i \in 1..Len(ops)
    /\ ops[i].st = "pending"
    /\ ops' = [ops EXCEPT ![i] = Failed]
    /\ done_order' = Append(done_order, i)
    /\ UNCHANGED <<standaloneVars, today, dataset, rpc, sizes, responses, all_slots, rerror,
                   pre_dataset, replace_phase, flattenVars, searchVars>>

\* asyncio.run with a try/except around it that carries on with what succeeded
AsyncioRunCatches ==
    /\ rpc = "crawling"
    /\ \/ \A i \in 1..Len(ops) : ops[i].st = "ok"
       \/ \E i \in 1..Len(ops) : ops[i].st = "failed"
    /\ LET ok == SelectSeq(ops, LAMBDA o : o.st = "ok")
       IN responses' = [i \in 1..Len(ok) |-> ok[i].res]
    /\ rerror' = IF \E i \in 1..Len(ops) : ops[i].st = "failed" THEN "fetch" ELSE "none"
    /\ rpc' = "gathered"
    /\ UNCHANGED <<standaloneVars, today, dataset, sizes, ops, done_order, all_slots,
                   pre_dataset, replace_phase, flattenVars, searchVars>>

\* lines 54-61: asyncio.run returns the orchestrator's result, or the failure
\* of a fetch operation propagates out of the pipeline (nothing catches it).
\* The await ends when every operation has succeeded or as soon as one failed;
\* asyncio.run then cancels the submitted operations still running as it
\* closes its loop.
AsyncioRun ==
    /\ rpc = "crawling"
    /\ \/ \A i \in 1..Len(ops) : ops[i].st = "ok"
       \/ \E i \in 1..Len(ops) : ops[i].st = "failed"
    /\ LET out == SportscannerCrawlerBot(ops, done_order)
       IN IF out.raised
          THEN /\ rpc' = "raised"
               /\ rerror' = "fetch"
               /\ ops' = [i \in 1..Len(ops) |->
                            IF ops[i].st = "pending" THEN Cancelled ELSE ops[i]]
               /\ UNCHANGED responses
          ELSE /\ rpc' = "gathered"
               /\ responses' = out.value
               /\ UNCHANGED <<rerror, ops>>
    /\ UNCHANGED <<standaloneVars, today, dataset, sizes, done_order, all_slots,
                   pre_dataset, replace_phase, flattenVars, searchVars>>

\* the pipeline passing the TypeError of flatten_responses by
FlattenStepIgnoresError ==
    /\ rpc = "gathered"
    /\ all_slots' = SelectSeq(Comprehension(responses), IsUnified)
    /\ rpc' = "flattened"
    /\ UNCHANGED <<standaloneVars, today, dataset, sizes, ops, done_order, responses, rerror,
                   pre_dataset, replace_phase, flattenVars, searchVars>>

\* line 63: all_slots = flatten_responses(responses_from_all_sources)
FlattenStep ==
    /\ rpc = "gathered"
    /\ LET out == flatten_responses(responses)
       IN IF out.raised
          THEN /\ rpc' = "raised"
               /\ rerror' = "TypeError"
               /\ UNCHANGED all_slots
          ELSE /\ rpc' = "flattened"
               /\ all_slots' = out.value
               /\ UNCHANGED rerror
    /\ UNCHANGED <<standaloneVars, today, dataset, sizes, ops, done_order, responses,
                   pre_dataset, replace_phase, flattenVars, searchVars>>

\* a pipeline that adds the batch to the rows already stored
ReplaceAppendOnly ==
    /\ rpc = "flattened"
    /\ replace_phase' = "deleted"
    /\ rpc' = "deleting"
    /\ UNCHANGED <<standaloneVars, today, dataset, sizes, ops, done_order, responses, all_slots,
                   rerror, pre_dataset, flattenVars, searchVars>>

\* a pipeline that exits when no slot was collected, as its warning says
ReplaceDeleteUnlessEmpty ==
    /\ rpc = "flattened"
    /\ IF all_slots = <<>>
       THEN /\ rpc' = "done"
            /\ UNCHANGED <<dataset, replace_phase>>
       ELSE /\ dataset' = DeleteAll(dataset)
            /\ replace_phase' = "deleted"
            /\ rpc' = "deleting"
    /\ UNCHANGED <<standaloneVars, today, sizes, ops, done_order, responses, all_slots, rerror,
                   pre_dataset, flattenVars, searchVars>>

\* lines 65-69: the emptiness check only logs; the publisher is called with
\* all_slots and deletes every row
ReplaceDelete ==
    /\ rpc = "flattened"
    /\ dataset' = DeleteAll(dataset)
    /\ replace_phase' = "deleted"
    /\ rpc' = "deleting"
    /\ UNCHANGED <<standaloneVars, today, sizes, ops, done_order, responses, all_slots, rerror,
                   pre_dataset, flattenVars, searchVars>>

\* line 69, second phase: the publisher inserts the batch; line 71: return True
ReplaceInsert ==
    /\ rpc = "deleting"
    /\ dataset' = InsertAll(dataset, all_slots)
    /\ replace_phase' = "inserted"
    /\ rpc' = "done"
    /\ UNCHANGED <<standaloneVars, today, sizes, ops, done_order, responses, all_slots, rerror,
                   pre_dataset, flattenVars, searchVars>>

\* line 69: the storage fails after the delete phase; the pipeline aborts
ReplaceFail ==
    /\ rpc = "deleting"
    /\ rpc' = "raised"
    /\ rerror' = "storage"
    /\ UNCHANGED <<standaloneVars, today, dataset, sizes, ops, done_order, responses, all_slots,
                   pre_dataset, replace_phase, flattenVars, searchVars>>

\* the flow run is over (returned True or raised); the next run starts afresh
RefreshEnd ==
    /\ rpc \in {"done", "raised"}
    /\ rpc' = "idle"
    /\ sizes' = [i \in 1..Len(Pipelines) |-> 0]
    /\ ops' = <<>>
    /\ done_order' = <<>>
    /\ responses' = <<>>
    /\ all_slots' = <<>>
    /\ rerror' = "none"
    /\ pre_dataset' = dataset
    /\ replace_phase' = "none"
    /\ UNCHANGED <<standaloneVars, today, dataset, flattenVars, searchVars>>

Refresh ==
    \/ StartRefresh
    \/ \E i \in 1..MaxOps : OpSucceed(i)
    \/ \E i \in 1..MaxOps : OpFail(i)
    \/ AsyncioRun
    \/ FlattenStep
    \/ ReplaceDelete
    \/ ReplaceInsert
    \/ ReplaceFail
    \/ RefreshEnd

----------------------------------------------------------------------------
(* A direct call of flatten_responses *)

FlattenSlots ==
    LET d == RefreshDates(today)
    IN [r1 |-> Slot("A", d[1], 9, 10, 1),
        r2 |-> Slot("B", d[1], 9, 10, 1),
        r3 |-> Slot("B", d[2], 9, 10, 0)]

\* the entries an argument of flatten_responses is made of
FlattenEntries ==
    {NoneResponse, ListResponse(<<>>), ListResponse(<<FlattenSlots.r1>>),
     ListResponse(<<FlattenSlots.r2, FlattenSlots.r3>>),
     ListResponse(<<RawDict("A", today, 9, 10, 1)>>)}

SeqsUpTo(S, n) == UNION {[1..k -> S] : k \in 0..n}

\* flatten_responses(rs) is called and returns or raises
FlattenCall ==
    /\ fl_pc = "idle"
    /\ \E rs \in SeqsUpTo(FlattenEntries, MaxEntries) :
         /\ fl_in' = rs
         /\ fl_out' = flatten_responses(rs)
    /\ fl_pc' = "returned"
    /\ UNCHANGED <<standaloneVars, today, dataset, refreshVars, searchVars>>

\* the caller drops the result
FlattenForget ==
    /\ fl_pc = "returned"
    /\ fl_pc' = "idle"
    /\ fl_in' = <<>>
    /\ fl_out' = [raised |-> FALSE, value |-> <<>>]
    /\ UNCHANGED <<standaloneVars, today, dataset, refreshVars, searchVars>>

----------------------------------------------------------------------------
(* Search: dates as the response carries them *)

\* date.weekday of the Gregorian calendar, 0 = Sunday
Weekday(d) ==
    LET t == <<0, 3, 2, 5, 0, 3, 5, 1, 4, 6, 2, 4>>
        y == IF d.month < 3 THEN d.year - 1 ELSE d.year
    IN (y + (y \div 4) - (y \div 100) + (y \div 400) + t[d.month] + d.day) % 7

\* date.strftime("%a, %b %d"): weekday name, month name, day of month; no year
FormatDate(d) == [weekday |-> Weekday(d), month |-> d.month, day |-> d.day]

\* a parse that takes the year of the day the search runs on
StrptimeThisYear(str) ==
    [raised |-> str.day > DaysInMonth(today.year, str.month),
     value |-> Date(today.year, str.month, str.day)]

\* datetime.strptime(str, "%a, %b %d"): the year defaults to 1900 and the
\* weekday is not used; ValueError when 1900 has no such day (Feb 29)
Strptime(str) ==
    [raised |-> str.day > DaysInMonth(1900, str.month),
     value |-> Date(1900, str.month, str.day)]

----------------------------------------------------------------------------
(* Search: the query and the aggregation *)

InKeys(k, keys) == \E i \in 1..Len(keys) : keys[i] = k

\* the WHERE clauses without the one on spaces
MatchesFullCourts(row, keys, f, now) ==
    /\ InKeys(row.composite_key, keys)
    /\ row.starting_time >= f.timeRange.starting
    /\ row.ending_time <= f.timeRange.ending
    /\ DateLE(now, row.date)
    /\ DateLE(f.dateRange.starting, row.date)
    /\ DateLE(row.date, f.dateRange.ending)

\* the WHERE clauses of lines 61-73
Matches(row, keys, f, now) ==
    /\ InKeys(row.composite_key, keys)
    /\ row.spaces > 0
    /\ row.starting_time >= f.timeRange.starting
    /\ row.ending_time <= f.timeRange.ending
    /\ DateLE(now, row.date)
    /\ DateLE(f.dateRange.starting, row.date)
    /\ DateLE(row.date, f.dateRange.ending)

\* db.get_all_rows(engine, db.SportScanner, select ... where ...), in table order
Query(table, keys, f, now) ==
    SelectSeq(table, LAMBDA row : Matches(row, keys, f, now))

\* composite_keys = [x["venue"]["composite_key"] for x in data]
KeysOf(data) == [i \in 1..Len(data) |-> data[i].composite_key]

\* {x["venue"]["composite_key"]: x["distance"] for x in data}: the last entry
\* of a key wins
DistanceMap(data) ==
    [k \in {data[i].composite_key : i \in 1..Len(data)} |->
        LET last == CHOOSE i \in 1..Len(data) :
                        /\ data[i].composite_key = k
                        /\ \A j \in (i + 1)..Len(data) : data[j].composite_key # k
        IN data[last].distance]

\* group_slots_by_attributes(slots, ("composite_key", "date")): one group per
\* key, in the order the keys first appear, each with its rows in input order
RECURSIVE GroupKeys(_)
GroupKeys(rows) ==
    IF rows = <<>> THEN <<>>
    ELSE LET before == GroupKeys(SubSeq(rows, 1, Len(rows) - 1))
             k == <<rows[Len(rows)].composite_key, rows[Len(rows)].date>>
         IN IF \E i \in 1..Len(before) : before[i] = k THEN before
            ELSE Append(before, k)

group_slots_by_attributes(rows) ==
    LET keys == GroupKeys(rows)
    IN [g \in 1..Len(keys) |->
          [composite_key |-> keys[g][1],
           date |-> keys[g][2],
           slots |-> SelectSeq(rows, LAMBDA r : <<r.composite_key, r.date>> = keys[g])]]

\* sort_and_format_grouped_slots_for_ui(grouped, distances): every group gets
\* its venue's distance and its date as text; a venue without a distance is a
\* failure. raw_date is history: the date the text was made from.
sort_and_format_grouped_slots_for_ui(grouped, dist) ==
    IF \E g \in 1..Len(grouped) : grouped[g].composite_key \notin DOMAIN dist
    THEN [raised |-> TRUE, value |-> <<>>]
    ELSE [raised |-> FALSE,
          value |-> [g \in 1..Len(grouped) |->
                       [composite_key |-> grouped[g].composite_key,
                        date |-> FormatDate(grouped[g].date),
                        distance |-> dist[grouped[g].composite_key],
                        slots |-> grouped[g].slots,
                        raw_date |-> grouped[g].date]]]

\* the sort key of lines 87-90 compared: (datetime, distance) tuples
KeyLT(a, b) ==
    LET da == Strptime(a.date).value
        db == Strptime(b.date).value
    IN DateLT(da, db) \/ (da = db /\ a.distance < b.distance)

\* sorted(): stable, so an element goes after the elements it does not precede
RECURSIVE InsertSorted(_, _)
InsertSorted(x, s) ==
    IF s = <<>> THEN <<x>>
    ELSE IF KeyLT(x, Head(s)) THEN <<x>> \o s
    ELSE <<Head(s)>> \o InsertSorted(x, Tail(s))

RECURSIVE Sorted(_)
Sorted(s) ==
    IF s = <<>> THEN <<>>
    ELSE InsertSorted(s[Len(s)], Sorted(SubSeq(s, 1, Len(s) - 1)))

\* a response returned in the order the groups were built in
SortResponseKeepsOrder(resp) ==
    IF \E g \in 1..Len(resp) : Strptime(resp[g].date).raised
    THEN [raised |-> TRUE, value |-> <<>>]
    ELSE [raised |-> FALSE, value |-> resp]

\* lines 85-91: sorted(_response, key=...), or the ValueError of a key
SortResponse(resp) ==
    IF \E g \in 1..Len(resp) : Strptime(resp[g].date).raised
    THEN [raised |-> TRUE, value |-> <<>>]
    ELSE [raised |-> FALSE, value |-> Sorted(resp)]

----------------------------------------------------------------------------
(* Search: the request handler *)

Venue(k, dist) == [composite_key |-> k, distance |-> dist]

Request(data, pref, auth, venues, t0, t1, d0, d1) ==
    [data |-> data,                        \* answer of /venues/near
     searchUserPreferredLocations |-> pref,
     auth_ok |-> auth,                     \* the token decodes to a user_id
     preferredVenues |-> venues,           \* user.get("preferredVenues", [])
     timeRange |-> [starting |-> t0, ending |-> t1],
     dateRange |-> [starting |-> d0, ending |-> d1]]

\* the request made, again and again, while refreshes run
ConcurrentRequests(now) ==
    {Request(<<Venue("A", 1), Venue("B", 2)>>, FALSE, FALSE, <<>>,
             9, 11, now, AddDays(now, 2))}

\* the requests made against a dataset at rest
SearchRequests(now) ==
    {Request(data, p[1], p[2], p[3], 9, t1, dr[1], dr[2]) :
        data \in {<<Venue("A", 1), Venue("B", 2)>>, <<Venue("A", 2), Venue("B", 1)>>,
                  <<Venue("A", 1), Venue("B", 1)>>, <<Venue("A", 1)>>},
        p \in {<<FALSE, FALSE, <<>> >>, <<TRUE, FALSE, <<>> >>,
               <<TRUE, TRUE, <<"A", "B">> >>, <<TRUE, TRUE, <<>> >>},
        t1 \in {10, 11},
        dr \in {<<now, AddDays(now, 2)>>, <<AddDays(now, 1), AddDays(now, 1)>>}}

NoRequest == Request(<<>>, FALSE, FALSE, <<>>, 0, 0, Date(1, 1, 1), Date(1, 1, 1))

\* lines 33-42: the request arrives and the venue lookup answers
SearchLookup(requests) ==
    /\ spc = "idle"
    /\ \E f \in requests : filters' = f
    /\ spc' = "lookup"
    /\ UNCHANGED <<standaloneVars, today, dataset, refreshVars, flattenVars, composite_keys, slots,
                   distances, sorted_response, sstatus, in_window>>

\* lines 44-56: the keys the rows are filtered by
ResolveKeys(f) ==
    IF f.searchUserPreferredLocations
    THEN IF f.auth_ok
         THEN [raised |-> FALSE, value |-> f.preferredVenues]
         ELSE [raised |-> TRUE, value |-> <<>>]
    ELSE [raised |-> FALSE, value |-> KeysOf(f.data)]

\* a handler that clears the rows of days gone by out of the table as it reads
SearchRunPurges ==
    /\ spc = "lookup"
    /\ spc' = "done"
    /\ LET keys == ResolveKeys(filters)
           rows == Query(dataset, keys.value, filters, today)
           dist == DistanceMap(filters.data)
           resp == sort_and_format_grouped_slots_for_ui(
                       group_slots_by_attributes(rows), dist)
           srt == SortResponse(resp.value)
       IN IF keys.raised
          THEN /\ sstatus' = "HTTP_401_UNAUTHORIZED"
               /\ UNCHANGED <<composite_keys, slots, distances, sorted_response,
                              in_window>>
          ELSE /\ composite_keys' = keys.value
               /\ slots' = rows
               /\ distances' = dist
               /\ in_window' = (rpc = "deleting")
               /\ sstatus' = IF resp.raised THEN "KeyError"
                             ELSE IF srt.raised THEN "ValueError" ELSE "ok"
               /\ sorted_response' =
                     IF resp.raised \/ srt.raised THEN <<>> ELSE srt.value
    /\ dataset' = DeleteOnlyPast(dataset)
    /\ UNCHANGED <<standaloneVars, today, refreshVars, flattenVars, filters>>

\* lines 44-96: keys, query, grouping, distances, sort, response. The handler
\* reads the dataset once and shares nothing else, so this is one step.
SearchRun ==
    /\ spc = "lookup"
    /\ spc' = "done"
    /\ LET keys == ResolveKeys(filters)
           rows == Query(dataset, keys.value, filters, today)
           dist == DistanceMap(filters.data)
           resp == sort_and_format_grouped_slots_for_ui(
                       group_slots_by_attributes(rows), dist)
           srt == SortResponse(resp.value)
       IN IF keys.raised
          THEN /\ sstatus' = "HTTP_401_UNAUTHORIZED"
               /\ UNCHANGED <<composite_keys, slots, distances, sorted_response,
                              in_window>>
          ELSE /\ composite_keys' = keys.value
               /\ slots' = rows
               /\ distances' = dist
               /\ in_window' = (rpc = "deleting")
               /\ sstatus' = IF resp.raised THEN "KeyError"
                             ELSE IF srt.raised THEN "ValueError" ELSE "ok"
               /\ sorted_response' =
                     IF resp.raised \/ srt.raised THEN <<>> ELSE srt.value
    /\ UNCHANGED <<standaloneVars, today, dataset, refreshVars, flattenVars, filters>>

\* the response is sent; the handler is ready for the next request
SearchEnd ==
    /\ spc = "done"
    /\ spc' = "idle"
    /\ filters' = NoRequest
    /\ composite_keys' = <<>>
    /\ slots' = <<>>
    /\ distances' = DistanceMap(<<>>)
    /\ sorted_response' = <<>>
    /\ sstatus' = "ok"
    /\ in_window' = FALSE
    /\ UNCHANGED <<standaloneVars, today, dataset, refreshVars, flattenVars>>

----------------------------------------------------------------------------
(* standalone_refresh_trigger *)

\* the two adapters of the standalone refresh, in argument order
StandaloneAdapters == <<"BetterOrganisation", "CitySports">>

\* what a fetch operation of the standalone refresh can return: as in the full
\* refresh, and None from either adapter
StandaloneResults(a, t) == AdapterResults(a, t) \cup {NoneResponse}

NoOutcome == [raised |-> FALSE, error |-> "none", value |-> <<>>]
Raised(e) == [raised |-> TRUE, error |-> e, value |-> <<>>]
Returned(v) == [raised |-> FALSE, error |-> "none", value |-> v]

\* the names of the fields of a slot
FieldNames == <<"composite_key", "date", "starting_time", "ending_time", "spaces">>

\* iter(x) of an element of a response. The keys of a dict; for a
\* UnifiedParserSchema, whose class decides, either its (name, value) pairs
\* (`iterable`) or a TypeError.
Iterate(x, iterable) ==
    IF x.type = "dict"
    THEN [raised |-> FALSE,
          value |-> [i \in 1..Len(FieldNames) |-> [type |-> "str", name |-> FieldNames[i]]]]
    ELSE IF iterable
    THEN [raised |-> FALSE,
          value |-> [i \in 1..Len(FieldNames) |->
                       [type |-> "tuple", name |-> FieldNames[i], of |-> x]]]
    ELSE [raised |-> TRUE, value |-> <<>>]

\* itertools.chain.from_iterable over the orchestrator's result: None is not
\* iterable
ChainResponses(rs) ==
    IF \E i \in 1..Len(rs) : rs[i].none
    THEN [raised |-> TRUE, value |-> <<>>]
    ELSE [raised |-> FALSE, value |-> Comprehension(rs)]

RECURSIVE ChainElements(_, _)
\* itertools.chain.from_iterable over the elements of the responses
ChainElements(xs, iterable) ==
    IF xs = <<>> THEN [raised |-> FALSE, value |-> <<>>]
    ELSE LET head == Iterate(Head(xs), iterable)
             rest == ChainElements(Tail(xs), iterable)
         IN IF head.raised \/ rest.raised
            THEN [raised |-> TRUE, value |-> <<>>]
            ELSE [raised |-> FALSE, value |-> head.value \o rest.value]

\* lines 87-89: list(chain.from_iterable(chain.from_iterable(all_fetched_slots)))
ChainTwice(fetched, iterable) ==
    LET inner == ChainResponses(fetched)
        outer == ChainElements(inner.value, iterable)
    IN IF inner.raised \/ outer.raised THEN Raised("TypeError")
       ELSE Returned(outer.value)

\* lines 78-82: the two adapters create their operations for the dates and
\* venues asked for
StandaloneStart ==
    /\ sa_pc = "idle"
    /\ \E n \in 0..MaxOps, m \in 0..MaxOps :
         /\ n + m <= MaxOps
         /\ sa_ops' = [i \in 1..(n + m) |->
                         [st |-> "pending", res |-> NoneResponse,
                          adapter |-> StandaloneAdapters[IF i <= n THEN 1 ELSE 2]]]
    /\ sa_pc' = "awaiting"
    /\ all_fetched_slots' = <<>>
    /\ sa_out' = NoOutcome
    /\ UNCHANGED <<today, dataset, refreshVars, flattenVars, searchVars>>

\* a fetch operation of the standalone refresh completes with a response
StandaloneOpSucceed(i) ==
    /\ sa_pc = "awaiting"
    /\ i \in 1..Len(sa_ops)
    /\ sa_ops[i].st = "pending"
    /\ \E r \in StandaloneResults(sa_ops[i].adapter, today) :
         sa_ops' = [sa_ops EXCEPT ![i].st = "ok", ![i].res = r]
    /\ UNCHANGED <<today, dataset, refreshVars, flattenVars, searchVars,
                   sa_pc, all_fetched_slots, sa_out>>

\* a fetch operation of the standalone refresh raises
StandaloneOpFail(i) ==
    /\ sa_pc = "awaiting"
    /\ i \in 1..Len(sa_ops)
    /\ sa_ops[i].st = "pending"
    /\ sa_ops' = [sa_ops EXCEPT ![i].st = "failed"]
    /\ UNCHANGED <<today, dataset, refreshVars, flattenVars, searchVars,
                   sa_pc, all_fetched_slots, sa_out>>

\* a standalone refresh that publishes what it fetched
StandaloneReturnPublishes ==
    /\ sa_pc = "awaiting"
    /\ \/ \A i \in 1..Len(sa_ops) : sa_ops[i].st = "ok"
       \/ \E i \in 1..Len(sa_ops) : sa_ops[i].st = "failed"
    /\ LET out == SportscannerCrawlerBot(sa_ops, <<>>)
       IN IF out.raised
          THEN /\ sa_out' = Raised("fetch")
               /\ sa_pc' = "raised"
               /\ UNCHANGED <<all_fetched_slots, dataset>>
          ELSE /\ all_fetched_slots' = out.value
               /\ \E iterable \in BOOLEAN :
                    sa_out' = ChainTwice(out.value, iterable)
               /\ sa_pc' = IF sa_out'.raised THEN "raised" ELSE "returned"
               /\ dataset' = InsertAll(DeleteAll(dataset), Comprehension(out.value))
    /\ UNCHANGED <<today, refreshVars, flattenVars, searchVars, sa_ops>>

\* lines 84-90: the await ends when every operation has succeeded or as soon
\* as one failed; the failure propagates, otherwise the result is chained
\* twice and returned
StandaloneReturn ==
    /\ sa_pc = "awaiting"
    /\ \/ \A i \in 1..Len(sa_ops) : sa_ops[i].st = "ok"
       \/ \E i \in 1..Len(sa_ops) : sa_ops[i].st = "failed"
    /\ LET out == SportscannerCrawlerBot(sa_ops, <<>>)
       IN IF out.raised
          THEN /\ sa_out' = Raised("fetch")
               /\ sa_pc' = "raised"
               /\ UNCHANGED all_fetched_slots
          ELSE /\ all_fetched_slots' = out.value
               /\ \E iterable \in BOOLEAN :
                    sa_out' = ChainTwice(out.value, iterable)
               /\ sa_pc' = IF sa_out'.raised THEN "raised" ELSE "returned"
    /\ UNCHANGED <<today, dataset, refreshVars, flattenVars, searchVars, sa_ops>>

\* the caller has the outcome
StandaloneEnd ==
    /\ sa_pc \in {"returned", "raised"}
    /\ sa_pc' = "idle"
    /\ sa_ops' = <<>>
    /\ all_fetched_slots' = <<>>
    /\ sa_out' = NoOutcome
    /\ UNCHANGED <<today, dataset, refreshVars, flattenVars, searchVars>>

Standalone ==
    \/ StandaloneStart
    \/ \E i \in 1..MaxOps : StandaloneOpSucceed(i) \/ StandaloneOpFail(i)
    \/ StandaloneReturn
    \/ StandaloneEnd

----------------------------------------------------------------------------
(* Specifications *)

\* the day the running system is observed on: the refresh dates cross a year end
RunDay == Date(2024, 12, 30)

InitLocals ==
    /\ rpc = "idle"
    /\ sizes = [i \in 1..Len(Pipelines) |-> 0]
    /\ ops = <<>>
    /\ done_order = <<>>
    /\ responses = <<>>
    /\ all_slots = <<>>
    /\ rerror = "none"
    /\ pre_dataset = dataset
    /\ replace_phase = "none"
    /\ fl_pc = "idle"
    /\ fl_in = <<>>
    /\ fl_out = [raised |-> FALSE, value |-> <<>>]
    /\ spc = "idle"
    /\ filters = NoRequest
    /\ composite_keys = <<>>
    /\ slots = <<>>
    /\ distances = DistanceMap(<<>>)
    /\ sorted_response = <<>>
    /\ sstatus = "ok"
    /\ in_window = FALSE
    /\ sa_pc = "idle"
    /\ sa_ops = <<>>
    /\ all_fetched_slots = <<>>
    /\ sa_out = NoOutcome

\* the system after start-up: nothing crawled yet
Init ==
    /\ today = RunDay
    /\ dataset = <<>>
    /\ InitLocals

Search ==
    \/ SearchLookup(ConcurrentRequests(today))
    \/ SearchRun
    \/ SearchEnd

\* refreshes one after the other, searches at any time
Next == Refresh \/ Search

Spec == Init /\ [][Next]_vars

\* flatten_responses called on its own
NextFlatten == FlattenCall \/ FlattenForget

SpecFlatten == Init /\ [][NextFlatten]_vars

\* the days the datasets at rest were crawled on: before a leap day, before a
\* year end, before a month end
CrawlDays == {Date(2024, 2, 27), Date(2024, 12, 30), Date(2025, 6, 29)}

\* rows a refresh of day c can have stored
StoredSlots(c) ==
    LET d == RefreshDates(c)
    IN {Slot("A", d[1], 9, 10, 1), Slot("A", d[2], 9, 10, 1),
        Slot("B", d[2], 9, 10, 1), Slot("B", d[3], 9, 10, 1),
        Slot("A", d[2], 10, 11, 1), Slot("B", d[2], 9, 10, 0)}

\* a dataset at rest, searched on the day it was crawled or the day after
InitSearch ==
    /\ \E c \in CrawlDays :
         /\ today \in {c, NextDay(c)}
         /\ dataset \in SeqsUpTo(StoredSlots(c), MaxRows)
    /\ InitLocals

NextSearch ==
    \/ SearchLookup(SearchRequests(today))
    \/ SearchRun
    \/ SearchEnd

SpecSearch == InitSearch /\ [][NextSearch]_vars

\* a dataset at rest while standalone refreshes run
InitStandalone ==
    /\ today = RunDay
    /\ dataset \in SeqsUpTo(StoredSlots(RunDay), 1)
    /\ InitLocals

SpecStandalone == InitStandalone /\ [][Standalone]_vars

----------------------------------------------------------------------------
(* Properties of the write path, checked under Spec *)

\* the results of the submitted operations, in submission order
Results == [i \in 1..Len(ops) |-> ops[i].res]

\* the flattened batch of the running refresh
Batch == Comprehension(Results)

SomeOpFailed == \E i \in 1..Len(ops) : ops[i].st = "failed"
SomeOpDelivered == \E i \in 1..Len(ops) : ops[i].st = "ok" /\ Truthy(ops[i].res)

RECURSIVE Count(_, _)
Count(x, s) ==
    IF s = <<>> THEN 0
    ELSE (IF Head(s) = x THEN 1 ELSE 0) + Count(x, Tail(s))

Elements(s) == {s[i] : i \in 1..Len(s)}

\* C1: a refresh that ends with the failure of a fetch operation has reached
\* neither the delete nor the insert phase, and the dataset is the one the
\* refresh started with.
C1_FetchFailureLeavesDataset ==
    rerror = "fetch" =>
        /\ rpc = "raised"
        /\ replace_phase = "none"
        /\ dataset = pre_dataset

\* a refresh over a stored dataset failed on a fetch although a sibling
\* operation delivered slots
C1_Witness ==
    /\ rpc = "raised"
    /\ rerror = "fetch"
    /\ pre_dataset # <<>>
    /\ SomeOpDelivered

\* C2: once an operation of the batch has failed, the run never returns a
\* result sequence: the pipeline is still awaiting or has raised, nothing was
\* handed to flatten, and no slot of a sibling has reached the dataset.
C2_FailFast ==
    SomeOpFailed =>
        /\ rpc \in {"crawling", "raised"}
        /\ responses = <<>>
        /\ all_slots = <<>>
        /\ \A x \in Elements(Batch) : Count(x, dataset) = Count(x, pre_dataset)

\* the run raised with one operation failed and another having delivered slots
C2_Witness ==
    /\ rpc = "raised"
    /\ SomeOpFailed
    /\ SomeOpDelivered
    /\ \E x \in Elements(Batch) : Count(x, dataset) = 0

HasInvalid(rs) ==
    LET flat == Comprehension(rs)
    IN \E k \in 1..Len(flat) : ~IsUnified(flat[k])

\* C3: when the orchestrator's output holds an object that is no Unified
\* Record, the refresh gets no batch out of flatten (nothing dropped, nothing
\* coerced), ends with the TypeError, and never reaches the publisher: the
\* dataset is the one the refresh started with.
C3_InvalidRecordAborts ==
    HasInvalid(responses) =>
        /\ rpc \in {"gathered", "raised"}
        /\ rpc = "raised" => rerror = "TypeError"
        /\ all_slots = <<>>
        /\ replace_phase = "none"
        /\ dataset = pre_dataset

\* flatten raised on an output that also held valid slots, over a stored dataset
C3_Witness ==
    /\ rpc = "raised"
    /\ rerror = "TypeError"
    /\ pre_dataset # <<>>
    /\ \E k \in 1..Len(Batch) : IsUnified(Batch[k])

\* C4: when a refresh has returned True, the dataset holds exactly the slots of
\* its flattened batch, each as often as the batch holds it; no other row is
\* left.
C4_FullReplacement ==
    rpc = "done" =>
        /\ Len(dataset) = Len(Batch)
        /\ \A x \in Elements(dataset) \cup Elements(Batch) \cup Elements(pre_dataset) :
              Count(x, dataset) = Count(x, Batch)

\* a refresh with a non-empty batch replaced a dataset holding a row that is
\* not in the batch
C4_Witness ==
    /\ rpc = "done"
    /\ Batch # <<>>
    /\ \E x \in Elements(pre_dataset) : Count(x, Batch) = 0

\* C5: a search whose query ran between the delete and the insert phase of a
\* refresh read no row and, when it answers, answers with no group.
C5_ReadInWindowSeesNothing ==
    (spc = "done" /\ in_window) =>
        /\ slots = <<>>
        /\ sstatus = "ok"
        /\ sorted_response = <<>>

\* such a search ran although the dataset before the refresh and the batch
\* being published both hold rows its filters match
C5_Witness ==
    /\ spc = "done"
    /\ in_window
    /\ rpc = "deleting"
    /\ Query(pre_dataset, composite_keys, filters, today) # <<>>
    /\ Query(all_slots, composite_keys, filters, today) # <<>>

RunReturned == rpc \in {"gathered", "flattened", "deleting", "done"}

\* C7: when the run has returned, it returned one result per submitted
\* operation, the i-th being the i-th submitted operation's, whatever the
\* order the operations completed in; the batch flattened from it is the
\* concatenation of the results in submission order.
C7_SubmissionOrder ==
    /\ RunReturned =>
          /\ Len(responses) = Len(ops)
          /\ \A i \in 1..Len(ops) : responses[i] = ops[i].res
    /\ rpc \in {"flattened", "deleting", "done"} => all_slots = Batch

\* the run returned after the second operation completed before the first,
\* the two with different results
C7_Witness ==
    /\ rpc = "gathered"
    /\ Len(ops) >= 2
    /\ done_order[1] = 2
    /\ done_order[2] = 1
    /\ ops[1].res # ops[2].res
    /\ Truthy(ops[1].res)
    /\ Truthy(ops[2].res)

----------------------------------------------------------------------------
(* Properties of flatten_responses, checked under SpecFlatten *)

EntryLen(response) == IF Truthy(response) THEN Len(response.items) ELSE 0

\* the number of slots in the entries before entry e
RECURSIVE Offset(_, _)
Offset(rs, e) == IF e <= 1 THEN 0 ELSE Offset(rs, e - 1) + EntryLen(rs[e - 1])

ValidInput(rs) ==
    \A e \in 1..Len(rs) : \A k \in 1..EntryLen(rs[e]) : IsUnified(rs[e].items[k])

FlattenExample ==
    <<ListResponse(<<>>), ListResponse(<<FlattenSlots.r1>>), NoneResponse,
      ListResponse(<<FlattenSlots.r2, FlattenSlots.r3>>)>>

\* C8: on an argument whose non-falsy entries hold Unified Records only,
\* flatten_responses returns a list as long as those entries together, with
\* the k-th slot of entry e right after the slots of the entries before e; on
\* [[], [r1], None, [r2, r3]] it returns [r1, r2, r3].
C8_FlattenConcatenates ==
    (fl_pc = "returned" /\ ValidInput(fl_in)) =>
        /\ ~fl_out.raised
        /\ Len(fl_out.value) = Offset(fl_in, Len(fl_in) + 1)
        /\ \A e \in 1..Len(fl_in) : \A k \in 1..EntryLen(fl_in[e]) :
              fl_out.value[Offset(fl_in, e) + k] = fl_in[e].items[k]
        /\ fl_in = FlattenExample =>
              fl_out.value = <<FlattenSlots.r1, FlattenSlots.r2, FlattenSlots.r3>>

\* the call on the example has returned
C8_Witness ==
    /\ fl_pc = "returned"
    /\ fl_in = FlattenExample
    /\ ~fl_out.raised
    /\ Len(fl_out.value) = 3

----------------------------------------------------------------------------
(* Properties of search, checked under SpecSearch *)

\* group a comes before group b by date, then by distance
Precedes(a, b) ==
    \/ DateLT(a.raw_date, b.raw_date)
    \/ a.raw_date = b.raw_date /\ a.distance < b.distance

\* the groups as they were handed to sorted()
Unsorted ==
    sort_and_format_grouped_slots_for_ui(group_slots_by_attributes(slots), distances).value

PositionIn(s, g) == CHOOSE i \in 1..Len(s) : s[i] = g

\* C9: the groups a search answers with are in ascending order of date, of
\* distance among those of one date, and in their input order among those
\* equal in both.
C9_DateThenDistanceOrder ==
    (spc = "done" /\ sstatus = "ok") =>
        \A i, j \in 1..Len(sorted_response) :
            i < j =>
                /\ ~Precedes(sorted_response[j], sorted_response[i])
                /\ ~Precedes(sorted_response[i], sorted_response[j]) =>
                      PositionIn(Unsorted, sorted_response[i])
                          < PositionIn(Unsorted, sorted_response[j])

\* C10: every row a search hands to the aggregator has its composite_key in
\* the distance map handed over with it.
C10_RowsHaveDistances ==
    (spc = "done" /\ sstatus # "HTTP_401_UNAUTHORIZED") =>
        \A k \in 1..Len(slots) : slots[k].composite_key \in DOMAIN distances

\* lines 75-91 on rows and a distance map: the sorted groups, or the failure
Aggregate(rows, dist) ==
    LET resp == sort_and_format_grouped_slots_for_ui(group_slots_by_attributes(rows), dist)
    IN IF resp.raised THEN [raised |-> TRUE, value |-> <<>>]
       ELSE SortResponse(resp.value)

Perms(n) == {p \in [1..n -> 1..n] : \A i, j \in 1..n : p[i] = p[j] => i = j}

Permuted(s, p) == [i \in 1..Len(s) |-> s[p[i]]]

\* the groups of a response with their members, order left aside
GroupView(resp) ==
    {[composite_key |-> resp[g].composite_key,
      raw_date |-> resp[g].raw_date,
      distance |-> resp[g].distance,
      members |-> Elements(resp[g].slots),
      size |-> Len(resp[g].slots)] : g \in 1..Len(resp)}

\* C11: aggregating the rows of a search in any other order fails exactly
\* when the search failed and otherwise gives the same groups with the same
\* members, each row in exactly one group (the one of its composite_key and
\* date), and at every position of the answer a group of the same date and
\* distance.
C11_AggregationIgnoresRowOrder ==
    (spc = "done" /\ sstatus # "HTTP_401_UNAUTHORIZED") =>
        /\ sstatus = "ok" =>
              \A k \in 1..Len(slots) :
                 Cardinality({g \in 1..Len(sorted_response) :
                                 slots[k] \in Elements(sorted_response[g].slots)}) = 1
                 /\ \A g \in 1..Len(sorted_response) :
                       slots[k] \in Elements(sorted_response[g].slots) <=>
                          /\ sorted_response[g].composite_key = slots[k].composite_key
                          /\ sorted_response[g].raw_date = slots[k].date
        /\ \A p \in Perms(Len(slots)) :
              LET other == Aggregate(Permuted(slots, p), distances)
              IN /\ other.raised <=> sstatus # "ok"
                 /\ sstatus = "ok" =>
                       /\ Len(other.value) = Len(sorted_response)
                       /\ GroupView(other.value) = GroupView(sorted_response)
                       /\ \A i \in 1..Len(sorted_response) :
                             /\ other.value[i].raw_date = sorted_response[i].raw_date
                             /\ other.value[i].distance = sorted_response[i].distance

\* a search answered with groups that were built in another order than they
\* are returned in, one of them holding two rows
C11_Witness ==
    /\ spc = "done"
    /\ sstatus = "ok"
    /\ Len(sorted_response) >= 2
    /\ Unsorted # sorted_response
    /\ \E g \in 1..Len(sorted_response) : Len(sorted_response[g].slots) >= 2

\* the conditions a stored row has to meet to be read by the search
Wanted(row) ==
    /\ row.composite_key \in Elements(composite_keys)
    /\ row.spaces > 0
    /\ row.starting_time >= filters.timeRange.starting
    /\ row.ending_time <= filters.timeRange.ending
    /\ ~DateLT(row.date, filters.dateRange.starting)
    /\ ~DateLT(filters.dateRange.ending, row.date)
    /\ ~DateLT(row.date, today)

\* C12: the rows a search has read are the stored rows that meet every
\* condition, each as often as it is stored, and no other row.
C12_QueryReadsExactlyTheMatches ==
    (spc = "done" /\ sstatus # "HTTP_401_UNAUTHORIZED") =>
        \A x \in Elements(dataset) \cup Elements(slots) :
            Count(x, slots) = IF Wanted(x) THEN Count(x, dataset) ELSE 0

\* a search read some rows and left out a row with no free space, a row of a
\* day gone by or a row outside the requested times
C12_Witness ==
    /\ spc = "done"
    /\ slots # <<>>
    /\ \E x \in Elements(dataset) : x.spaces = 0
    /\ \E x \in Elements(dataset) :
          DateLT(x.date, today) \/ x.ending_time > filters.timeRange.ending

\* C13: no step of a search, whether it answers or ends with a failure,
\* changes the dataset.
C13_SearchLeavesDataset == [][dataset' = dataset]_vars

\* a search over a stored dataset with a row of a day gone by read rows and
\* then failed on a venue without a distance
C13_Witness ==
    /\ spc = "done"
    /\ sstatus = "KeyError"
    /\ slots # <<>>
    /\ \E x \in Elements(dataset) : DateLT(x.date, today)

\* C14: a standalone refresh never deletes from or inserts into the persisted
\* dataset, whether it returns or fails: no step of it changes the dataset
\* or runs a phase of the publisher.
C14_StandaloneLeavesDataset ==
    [][dataset' = dataset /\ replace_phase' = "none"]_vars

\* a standalone refresh returned what it fetched, over a stored dataset
C14_Witness ==
    /\ dataset # <<>>
    /\ sa_pc = "returned"
    /\ sa_out.value # <<>>

\* the standalone refresh has come to its end with the orchestrator's result
\* in hand
StandaloneChained == sa_pc \in {"returned", "raised"} /\ sa_out.error # "fetch"

\* the orchestrator's result holds Unified Records only
OnlyUnified(rs) ==
    \A i \in 1..Len(rs) : \A j \in 1..Len(rs[i].items) : IsUnified(rs[i].items[j])

\* C15: on an orchestrator result of Unified Records (with empty or None
\* entries), the standalone refresh ends as flatten_responses ends on the
\* same result: the same flat sequence of Unified Records, no exception.
C15_StandaloneFlattensAlike ==
    (StandaloneChained /\ OnlyUnified(all_fetched_slots)) =>
        LET flat == flatten_responses(all_fetched_slots)
        IN /\ sa_out.raised = flat.raised
           /\ sa_out.value = flat.value

----------------------------------------------------------------------------
(* Properties of the operations a full refresh creates, checked under Spec *)

\* the operations the adapters' pipeline() calls of the running refresh created
Created == sizes[1] + sizes[2] + sizes[3] + sizes[4]

\* the full refresh has returned or has aborted
RefreshOver == rpc \in {"done", "raised"}

\* C16: when a full refresh returns or aborts, every operation it created is
\* in the orchestrator's worklist and has resolved there (a result, a failure,
\* or a cancellation at the abort); none was left never started.
C16_CreatedOperationsResolve ==
    RefreshOver =>
        /\ Len(ops) = Created
        /\ \A i \in 1..Len(ops) : ops[i].st \in {"ok", "failed", "cancelled"}

====
